---- MODULE Spec2Model ----
(***************************************************************************)
(* Model of web_aar.py: a Streamlit app in which every session re-runs the *)
(* script top to bottom.  Each run initialises the sheet headers, handles  *)
(* the "Log Entry" form (save, reload, AI tip) and renders the history     *)
(* tab.  The Google Sheet is shared by all sessions; every call to the     *)
(* sheet API and to the language model is one atomic step that may raise.  *)
(***************************************************************************)
EXTENDS Integers, Sequences, FiniteSets, TLC

VARIABLES
    sheet,        \* rows of Daily_AAR_DB.sheet1, each a 6-tuple of cell strings
    now,          \* the server clock read by datetime.datetime.now()
    gs_client,    \* cached get_gspread_client(): TRUE = client, FALSE = None
    ai_client,    \* cached get_ai_client(): TRUE = client, FALSE = None
    pc,           \* per session: position of the running script
    form,         \* per session: widget values of the current run
    success,      \* per session: the local `success` of the submit handler
    history_df,   \* per session: the local `history_df` of the submit handler
    tip,          \* per session: the local `tip`
    messages,     \* per session: st.* elements on the page
    prompt,       \* per session: history_text sent to generate_content
    llm_called,   \* per session: generate_content was called in this run
    saved,        \* per session: the row written by append_row in this run
    appended      \* history: rows of every save_to_sheet that returned True

vars == <<sheet, now, gs_client, ai_client, pc, form, success, history_df,
          tip, messages, prompt, llm_called, saved, appended>>

-----------------------------------------------------------------------------
(* Bounds *)

MaxRows == 3
MaxNow == 2
MaxHist == 6

Sessions == {"s1", "s2"}

-----------------------------------------------------------------------------
(* Program constants *)

\* The header row written by init_sheet_headers.
HEADERS == <<"Date", "Time", "User", "Went Right", "Went Wrong", "Next Steps">>

team_members == <<"Select Name...", "Kyle", "Sarah", "Mike", "Admin">>

ALL_USERS == "All Users"

\* Python's None (for user_filter and for an empty cell read by acell).
None == "<None>"

\* history_df.head(5)
HeadCount == 5

MSG_LOG_MORE == "Log more entries to get AI coaching!"
MSG_NO_CLIENT == "AI Error: Client not connected."
MSG_AI_ERROR == "AI Connection Error"
MSG_SAVED == "Entry Saved to Cloud!"
MSG_FILL == "Please fill out at least one field."
MSG_SELECT == "Please select your name in the sidebar to start."
MSG_SAVE_FAILED == "Failed to save to Google Sheet"
MSG_LOAD_FAILED == "Could not load history"
MSG_INIT_FAILED == "Could not initialize sheet headers"
MSG_NO_RECORDS == "No records found in the Google Sheet yet."
MSG_TIP == "AI Coach"
MSG_TABLE == "st.dataframe"
LLM_TEXT == "response.text"

-----------------------------------------------------------------------------
(* Inputs the sessions enter *)

\* The names picked in the sidebar by the modelled sessions.
PickedUsers == {team_members[1], team_members[2], team_members[3]}
FilterChoices == {ALL_USERS, team_members[2], team_members[3]}
\* (right, wrong, next_time) as typed into the three text areas.
FormTexts == {<<"", "", "">>, <<"shipped on time", "", "">>,
              <<"", "missed review", "">>}

Inputs ==
    { [current_user |-> team_members[1], right |-> "", wrong |-> "",
       next_time |-> "", submitted |-> FALSE] }
    \cup { [current_user |-> u, right |-> "", wrong |-> "", next_time |-> "",
            submitted |-> FALSE] : u \in PickedUsers \ {team_members[1]} }
    \cup { [current_user |-> u, right |-> x[1], wrong |-> x[2],
            next_time |-> x[3], submitted |-> TRUE] :
              u \in PickedUsers \ {team_members[1]}, x \in FormTexts }

NoInput == [current_user |-> team_members[1], right |-> "", wrong |-> "",
            next_time |-> "", submitted |-> FALSE]

-----------------------------------------------------------------------------
(* Helpers *)

Range(s) == { s[i] : i \in 1..Len(s) }

Reverse(s) == [i \in 1..Len(s) |-> s[Len(s) + 1 - i]]

IndexOf(s, x) == CHOOSE i \in 1..Len(s) : s[i] = x

\* Python truthiness of an optional string.
truthy(x) == x # None /\ x # ""

-----------------------------------------------------------------------------
(* Sheet API (gspread) as the program uses it *)

\* now.strftime("%Y-%m-%d") and now.strftime("%H:%M:%S"); the clock counts
\* ticks, two to a day.
date_str(t) == "2024-01-" \o ToString(10 + (t \div 2))

time_str(t) == "09:00:0" \o ToString(t % 2)

\* sheet.acell('A1').value: None when the cell is empty.
acell_A1(rows) == IF rows = <<>> \/ rows[1][1] = "" THEN None ELSE rows[1][1]

\* Variant: the row is written at the last used row instead of below it.
append_row_Overwrite(rows, row) ==
    IF rows = <<>> THEN <<row>> ELSE [rows EXCEPT ![Len(rows)] = row]

\* sheet.append_row(row): one row added below the last one.
append_row(rows, row) == Append(rows, row)

\* sheet.get_all_records(): row 1 gives the keys, every later row one record;
\* a header row with a repeated key raises.
get_all_records(rows) ==
    IF rows = <<>> THEN [raised |-> FALSE, data |-> <<>>]
    ELSE LET keys == rows[1] IN
         IF Cardinality(Range(keys)) # Len(keys)
         THEN [raised |-> TRUE, data |-> <<>>]
         ELSE [raised |-> FALSE,
               data |-> [i \in 1..(Len(rows) - 1) |->
                           [k \in Range(keys) |-> rows[i + 1][IndexOf(keys, k)]]]]

-----------------------------------------------------------------------------
(* Database functions *)

\* init_sheet_headers: `if not sheet.acell('A1').value`
needs_headers(a1) == ~truthy(a1)

\* The row save_to_sheet builds.
entry_row(t, user, right, wrong, next_time) ==
    <<date_str(t), time_str(t), user, right, wrong, next_time>>

\* Variant: the row is written although the call then reports a failure.
save_to_sheet_PartialWrite(api_ok, rows, t, user, right, wrong, next_time) ==
    [sheet |-> Append(rows, entry_row(t, user, right, wrong, next_time)),
     ret |-> api_ok]

\* save_to_sheet: api_ok = neither client.open nor append_row raised.
save_to_sheet(api_ok, rows, t, user, right, wrong, next_time) ==
    IF api_ok
    THEN [sheet |-> append_row(rows, entry_row(t, user, right, wrong, next_time)),
          ret |-> TRUE]
    ELSE [sheet |-> rows, ret |-> FALSE]

\* Variant: the read is served from before the latest append.
load_history_from_sheet_Stale(api_ok, rows, user_filter) ==
    IF ~api_ok THEN [df |-> <<>>, error |-> TRUE]
    ELSE LET r == get_all_records(SubSeq(rows, 1, Len(rows) - 1)) IN
         IF r.raised THEN [df |-> <<>>, error |-> TRUE]
         ELSE IF r.data = <<>> THEN [df |-> <<>>, error |-> FALSE]
         ELSE IF truthy(user_filter) /\ user_filter # ALL_USERS
              THEN IF "User" \notin DOMAIN r.data[1]
                   THEN [df |-> <<>>, error |-> TRUE]
                   ELSE [df |-> Reverse(SelectSeq(r.data,
                                   LAMBDA rec : rec["User"] = user_filter)),
                         error |-> FALSE]
              ELSE [df |-> Reverse(r.data), error |-> FALSE]

\* load_history_from_sheet: api_ok = neither client.open nor get_all_records
\* failed at the backend.  error = the except branch ran.
load_history_from_sheet(api_ok, rows, user_filter) ==
    IF ~api_ok THEN [df |-> <<>>, error |-> TRUE]
    ELSE LET r == get_all_records(rows) IN
         IF r.raised THEN [df |-> <<>>, error |-> TRUE]
         ELSE IF r.data = <<>> THEN [df |-> <<>>, error |-> FALSE]
         ELSE IF truthy(user_filter) /\ user_filter # ALL_USERS
              THEN IF "User" \notin DOMAIN r.data[1]
                   THEN [df |-> <<>>, error |-> TRUE]      \* KeyError: 'User'
                   ELSE [df |-> Reverse(SelectSeq(r.data,
                                   LAMBDA rec : rec["User"] = user_filter)),
                         error |-> FALSE]
              ELSE [df |-> Reverse(r.data), error |-> FALSE]

-----------------------------------------------------------------------------
(* Coach *)

\* row.get(key, '')
row_get(rec, key) == IF key \in DOMAIN rec THEN rec[key] ELSE ""

\* Variant: history_df.tail(n).
head_Tail(frame, n) ==
    SubSeq(frame, IF Len(frame) < n THEN 1 ELSE Len(frame) - n + 1, Len(frame))

\* history_df.head(n)
head(frame, n) == SubSeq(frame, 1, IF Len(frame) < n THEN Len(frame) ELSE n)

\* The loop building history_text: one (Date, Went Wrong, Went Right) item per
\* row of recent_history, in row order.
history_text(recent_history) ==
    [i \in 1..Len(recent_history) |->
        <<row_get(recent_history[i], "Date"),
          row_get(recent_history[i], "Went Wrong"),
          row_get(recent_history[i], "Went Right")>>]

\* Variant: no check for an empty history before the model is called.
generate_ai_tip_NoEmptyCheck(client, llm_ok, frame, user) ==
    IF ~client
    THEN [tip |-> MSG_NO_CLIENT, called |-> FALSE, prompt |-> <<>>]
    ELSE [tip |-> IF llm_ok THEN LLM_TEXT ELSE MSG_AI_ERROR,
          called |-> TRUE,
          prompt |-> history_text(SubSeq(frame, 1,
                        IF Len(frame) < HeadCount THEN Len(frame) ELSE HeadCount))]

\* generate_ai_tip: llm_ok = generate_content did not raise.
generate_ai_tip(client, llm_ok, frame, user) ==
    IF ~client
    THEN [tip |-> MSG_NO_CLIENT, called |-> FALSE, prompt |-> <<>>]
    ELSE IF frame = <<>>
    THEN [tip |-> MSG_LOG_MORE, called |-> FALSE, prompt |-> <<>>]
    ELSE [tip |-> IF llm_ok THEN LLM_TEXT ELSE MSG_AI_ERROR,
          called |-> TRUE,
          prompt |-> history_text(head(frame, HeadCount))]

-----------------------------------------------------------------------------
(* Tab 1 gate *)

\* Variant: `if right is None and wrong is None`.
both_empty_IsNone(right, wrong) == right = None /\ wrong = None

\* `if not right and not wrong`
both_empty(right, wrong) == right = "" /\ wrong = ""

\* What tab 1 does with the form of this run, up to the call of save_to_sheet.
tab1_outcome(f, client) ==
    IF f.current_user = team_members[1] THEN "select"
    ELSE IF ~f.submitted THEN "form"
    ELSE IF both_empty(f.right, f.wrong) THEN "empty"
    ELSE IF client THEN "save"
    ELSE "offline"

tab1_messages(outcome) ==
    IF outcome = "select" THEN {MSG_SELECT}
    ELSE IF outcome = "empty" THEN {MSG_FILL}
    ELSE {}

-----------------------------------------------------------------------------
(* State machine *)

\* Whether a call to the sheet API may succeed now: the sheet holds at most
\* MaxRows rows, so an append to a full sheet can only fail.
ApiOutcomes(appends) ==
    IF appends /\ Len(sheet) >= MaxRows THEN {FALSE} ELSE BOOLEAN

Init ==
    /\ sheet = <<>>
    /\ now = 0
    /\ gs_client \in BOOLEAN
    /\ ai_client \in BOOLEAN
    /\ pc = [s \in Sessions |-> "idle"]
    /\ form = [s \in Sessions |-> NoInput]
    /\ success = [s \in Sessions |-> FALSE]
    /\ history_df = [s \in Sessions |-> <<>>]
    /\ tip = [s \in Sessions |-> None]
    /\ messages = [s \in Sessions |-> {}]
    /\ prompt = [s \in Sessions |-> <<>>]
    /\ llm_called = [s \in Sessions |-> FALSE]
    /\ saved = [s \in Sessions |-> <<>>]
    /\ appended = <<>>

\* The end of a run: the script's variables are gone.
DropLocals(s) ==
    /\ form' = [form EXCEPT ![s] = NoInput]
    /\ success' = [success EXCEPT ![s] = FALSE]
    /\ history_df' = [history_df EXCEPT ![s] = <<>>]
    /\ tip' = [tip EXCEPT ![s] = None]
    /\ prompt' = [prompt EXCEPT ![s] = <<>>]
    /\ llm_called' = [llm_called EXCEPT ![s] = FALSE]
    /\ saved' = [saved EXCEPT ![s] = <<>>]

\* The script after init_sheet_headers: the sidebar and the form widgets are
\* read, and tab 1 runs up to the call of save_to_sheet or falls through to
\* tab 2.  shown = what the page holds so far.
ReadWidgets(s, shown) ==
    \E f \in Inputs :
        LET outcome == tab1_outcome(f, gs_client) IN
        /\ form' = [form EXCEPT ![s] = f]
        /\ pc' = [pc EXCEPT ![s] = IF outcome = "save" THEN "save" ELSE "tab2"]
        /\ messages' = [messages EXCEPT ![s] = shown \cup tab1_messages(outcome)]

\* A widget interaction re-runs the script without a sheet client: no
\* init_sheet_headers, no save, no history tab.
RunOffline(s) ==
    /\ pc[s] = "idle"
    /\ ~gs_client
    /\ \E f \in Inputs :
          messages' = [messages EXCEPT ![s] =
                          tab1_messages(tab1_outcome(f, gs_client))]
    /\ UNCHANGED <<sheet, now, gs_client, ai_client, pc, form, success,
                   history_df, tip, prompt, llm_called, saved, appended>>

\* A widget interaction re-runs the script on an empty page; with a sheet
\* client the run enters init_sheet_headers.
Rerun(s) ==
    /\ pc[s] = "idle"
    /\ gs_client
    /\ pc' = [pc EXCEPT ![s] = "init"]
    /\ messages' = [messages EXCEPT ![s] = {}]
    /\ UNCHANGED <<sheet, now, gs_client, ai_client, form, success, history_df,
                   tip, prompt, llm_called, saved, appended>>

\* init_sheet_headers: client.open(...).sheet1 and sheet.acell('A1').
InitReadA1(s) ==
    /\ pc[s] = "init"
    /\ \E api_ok \in ApiOutcomes(FALSE) :
          IF ~api_ok
          THEN ReadWidgets(s, messages[s] \cup {MSG_INIT_FAILED})
          ELSE IF needs_headers(acell_A1(sheet))
          THEN /\ pc' = [pc EXCEPT ![s] = "init_append"]
               /\ UNCHANGED <<messages, form>>
          ELSE ReadWidgets(s, messages[s])
    /\ UNCHANGED <<sheet, now, gs_client, ai_client, success, history_df,
                   tip, prompt, llm_called, saved, appended>>

\* init_sheet_headers: sheet.append_row(headers).
InitAppendHeaders(s) ==
    /\ pc[s] = "init_append"
    /\ \E api_ok \in ApiOutcomes(TRUE) :
          IF api_ok
          THEN /\ sheet' = append_row(sheet, HEADERS)
               /\ ReadWidgets(s, messages[s])
          ELSE /\ sheet' = sheet
               /\ ReadWidgets(s, messages[s] \cup {MSG_INIT_FAILED})
    /\ UNCHANGED <<now, gs_client, ai_client, success, history_df,
                   tip, prompt, llm_called, saved, appended>>

\* Tab 1: success = save_to_sheet(...), then st.success on True.  The clock
\* advances by one tick with every stored entry (up to MaxNow, where several
\* entries share a timestamp).
Save(s) ==
    /\ pc[s] = "save"
    /\ \E api_ok \in ApiOutcomes(TRUE) :
          LET f == form[s]
              t == IF now < MaxNow THEN now + 1 ELSE now
              r == save_to_sheet(api_ok, sheet, t, f.current_user, f.right,
                                 f.wrong, f.next_time)
          IN /\ now' = t
             /\ sheet' = r.sheet
             /\ success' = [success EXCEPT ![s] = r.ret]
             /\ IF r.ret
                THEN /\ messages' = [messages EXCEPT ![s] = @ \cup {MSG_SAVED}]
                     /\ saved' = [saved EXCEPT ![s] = r.sheet[Len(r.sheet)]]
                     /\ appended' = Append(appended, r.sheet[Len(r.sheet)])
                     /\ pc' = [pc EXCEPT ![s] = "reload"]
                ELSE /\ messages' = [messages EXCEPT ![s] = @ \cup {MSG_SAVE_FAILED}]
                     /\ UNCHANGED <<saved, appended>>
                     /\ pc' = [pc EXCEPT ![s] = "tab2"]
    /\ UNCHANGED <<gs_client, ai_client, form, history_df, tip, prompt,
                   llm_called>>

\* Tab 1: history_df = load_history_from_sheet(gs_client, current_user).
Reload(s) ==
    /\ pc[s] = "reload"
    /\ \E api_ok \in ApiOutcomes(FALSE) :
          LET r == load_history_from_sheet(api_ok, sheet, form[s].current_user)
          IN /\ history_df' = [history_df EXCEPT ![s] = r.df]
             /\ messages' = [messages EXCEPT ![s] =
                                IF r.error THEN @ \cup {MSG_LOAD_FAILED} ELSE @]
    /\ pc' = [pc EXCEPT ![s] = "tip"]
    /\ UNCHANGED <<sheet, now, gs_client, ai_client, form, success, tip,
                   prompt, llm_called, saved, appended>>

\* Variant: a tip that could not be generated undoes the submission.
Tip_Rollback(s) ==
    /\ pc[s] = "tip"
    /\ \E llm_ok \in BOOLEAN :
          LET r == generate_ai_tip(ai_client, llm_ok, history_df[s],
                                   form[s].current_user)
              failed == r.tip \in {MSG_NO_CLIENT, MSG_AI_ERROR}
          IN /\ tip' = [tip EXCEPT ![s] = r.tip]
             /\ prompt' = [prompt EXCEPT ![s] = r.prompt]
             /\ llm_called' = [llm_called EXCEPT ![s] = r.called]
             /\ sheet' = IF failed
                         THEN SelectSeq(sheet, LAMBDA row : row # saved[s])
                         ELSE sheet
             /\ messages' = [messages EXCEPT ![s] =
                                IF failed THEN (@ \ {MSG_SAVED}) \cup {MSG_TIP}
                                ELSE @ \cup {MSG_TIP}]
    /\ pc' = [pc EXCEPT ![s] = "tab2"]
    /\ UNCHANGED <<now, gs_client, ai_client, form, success, history_df,
                   saved, appended>>

\* Tab 1: tip = generate_ai_tip(ai_client, history_df, current_user); st.info.
Tip(s) ==
    /\ pc[s] = "tip"
    /\ \E llm_ok \in BOOLEAN :
          LET r == generate_ai_tip(ai_client, llm_ok, history_df[s],
                                   form[s].current_user)
          IN /\ tip' = [tip EXCEPT ![s] = r.tip]
             /\ prompt' = [prompt EXCEPT ![s] = r.prompt]
             /\ llm_called' = [llm_called EXCEPT ![s] = r.called]
    /\ messages' = [messages EXCEPT ![s] = @ \cup {MSG_TIP}]
    /\ pc' = [pc EXCEPT ![s] = "tab2"]
    /\ UNCHANGED <<sheet, now, gs_client, ai_client, form, success, history_df,
                   saved, appended>>

\* Tab 2: df = load_history_from_sheet(gs_client, filter_user), rendered as
\* a table or as the "no records" notice.  The script has reached its end: its
\* locals are dropped, the page stays until the next run.
Tab2(s) ==
    /\ pc[s] = "tab2"
    /\ \E api_ok \in ApiOutcomes(FALSE), filter_user \in FilterChoices :
          LET r == load_history_from_sheet(api_ok, sheet, filter_user)
          IN messages' = [messages EXCEPT ![s] =
                (IF r.error THEN @ \cup {MSG_LOAD_FAILED} ELSE @)
                \cup (IF r.df = <<>> THEN {MSG_NO_RECORDS} ELSE {MSG_TABLE})]
    /\ DropLocals(s)
    /\ pc' = [pc EXCEPT ![s] = "idle"]
    /\ UNCHANGED <<sheet, now, gs_client, ai_client, appended>>

Next ==
    \E s \in Sessions :
        \/ RunOffline(s)
        \/ Rerun(s)
        \/ InitReadA1(s)
        \/ InitAppendHeaders(s)
        \/ Save(s)
        \/ Reload(s)
        \/ Tip(s)
        \/ Tab2(s)

Spec == Init /\ [][Next]_vars

-----------------------------------------------------------------------------
(* The submit flow from a stored history: the sheet already holds up to      *)
(* MaxHist entries (below no, one or two header rows), the last of them just *)
(* saved by session "s1", which goes on to reload and to generate_ai_tip.    *)

Submissions ==
    { f \in Inputs : tab1_outcome(f, TRUE) = "save" }

SubmissionSeqs ==
    UNION { [1..k -> Submissions] : k \in 1..MaxHist }

EntriesOf(subs) ==
    [i \in 1..Len(subs) |->
        entry_row(i, subs[i].current_user, subs[i].right, subs[i].wrong,
                  subs[i].next_time)]

InitCoach ==
    \E top \in {<<>>, <<HEADERS>>, <<HEADERS, HEADERS>>}, subs \in SubmissionSeqs :
        LET entries == EntriesOf(subs)
            k == Len(subs)
            run(s) == s = "s1"
        IN /\ sheet = top \o entries
           /\ now = k
           /\ gs_client = TRUE
           /\ ai_client \in BOOLEAN
           /\ pc = [s \in Sessions |-> IF run(s) THEN "reload" ELSE "idle"]
           /\ form = [s \in Sessions |-> IF run(s) THEN subs[k] ELSE NoInput]
           /\ success = [s \in Sessions |-> run(s)]
           /\ history_df = [s \in Sessions |-> <<>>]
           /\ tip = [s \in Sessions |-> None]
           /\ messages = [s \in Sessions |-> IF run(s) THEN {MSG_SAVED} ELSE {}]
           /\ prompt = [s \in Sessions |-> <<>>]
           /\ llm_called = [s \in Sessions |-> FALSE]
           /\ saved = [s \in Sessions |-> IF run(s) THEN entries[k] ELSE <<>>]
           /\ appended = entries

NextCoach ==
    \E s \in Sessions :
        \/ Reload(s)
        \/ Tip(s)

SpecCoach == InitCoach /\ [][NextCoach]_vars

-----------------------------------------------------------------------------
(* Properties *)

IsPrefix(a, b) == Len(a) <= Len(b) /\ \A i \in 1..Len(a) : a[i] = b[i]

\* A stored entry as the record a correct read gives: keyed by the six headers.
AsRecord(row) == [k \in Range(HEADERS) |-> row[IndexOf(HEADERS, k)]]

AsRecords(rows) == [i \in 1..Len(rows) |-> AsRecord(rows[i])]

\* The rows of the successful saves made for user u, oldest first.
AppendedBy(u) == SelectSeq(appended, LAMBDA row : row[3] = u)

RosterUsers == PickedUsers \ {team_members[1]}

\* Session s has just left position p.
Left(s, p) == pc[s] = p /\ pc'[s] # p

\* C1: after any startups and N successful saves, a load without a user filter
\* (None or "All Users") that reaches the sheet returns exactly the N saved
\* entries, newest first.
C1_LoadAllReturnsAppended ==
    \A uf \in {None, ALL_USERS} :
        load_history_from_sheet(TRUE, sheet, uf).df = Reverse(AsRecords(appended))

\* C2: for every roster user U, a load filtered by U that reaches the sheet
\* returns exactly the saved entries whose User is U, newest first.
C2_LoadUserReturnsAppendedBy ==
    \A u \in RosterUsers :
        load_history_from_sheet(TRUE, sheet, u).df = Reverse(AsRecords(AppendedBy(u)))

\* C3 (as claimed): generate_ai_tip called with an empty history returns the
\* fixed "Log more entries" message and does not call the model, whatever the
\* AI client's state.
C3_EmptyHistoryLogMore ==
    [][\A s \in Sessions :
          Left(s, "tip") /\ history_df[s] = <<>>
              => tip'[s] = MSG_LOG_MORE /\ ~llm_called'[s]]_vars

\* C3 (amended): generate_ai_tip called with an empty history never calls the
\* model; it returns the fixed "Log more entries" message when the AI client
\* is connected and "AI Error: Client not connected." when there is none.
C3_EmptyHistoryNoCall ==
    [][\A s \in Sessions :
          Left(s, "tip") /\ history_df[s] = <<>>
              => /\ ~llm_called'[s]
                 /\ prompt'[s] = <<>>
                 /\ tip'[s] = IF ai_client THEN MSG_LOG_MORE ELSE MSG_NO_CLIENT]_vars

C3_Witness ==
    \E s \in Sessions :
        /\ pc[s] = "tab2" /\ success[s]
        /\ history_df[s] = <<>>
        /\ tip[s] = MSG_LOG_MORE

\* C4: a save_to_sheet that fails returns False to the submit handler, which
\* shows the error and carries on; the sheet is unchanged, so every load gives
\* afterwards what it gave before.
C4_FailedSaveChangesNothing ==
    [][\A s \in Sessions :
          Left(s, "save") /\ ~success'[s]
              => /\ sheet' = sheet
                 /\ appended' = appended
                 /\ pc'[s] = "tab2"
                 /\ MSG_SAVE_FAILED \in messages'[s]
                 /\ MSG_SAVED \notin messages'[s]
                 /\ \A uf \in FilterChoices :
                       load_history_from_sheet(TRUE, sheet', uf)
                           = load_history_from_sheet(TRUE, sheet, uf)]_vars

C4_Witness ==
    \E s \in Sessions :
        /\ pc[s] = "tab2"
        /\ MSG_SAVE_FAILED \in messages[s]
        /\ Len(appended) >= 1

\* C5: the sheet never holds anything but one header row, in row 1, whatever
\* the number of startups and their interleaving with appends.
C5_OneHeaderRowOnTop ==
    sheet # <<>> =>
        /\ sheet[1] = HEADERS
        /\ Cardinality({ i \in 1..Len(sheet) : sheet[i] = HEADERS }) = 1

C7_NoBlankEntry ==
    /\ \A s \in Sessions :
          pc[s] = "save" => form[s].right # "" \/ form[s].wrong # ""
    /\ \A i \in 1..Len(sheet) : sheet[i][4] # "" \/ sheet[i][5] # ""

C7_Witness ==
    \E s \in Sessions :
        /\ MSG_FILL \in messages[s]
        /\ pc[s] = "tab2"
        /\ form[s].submitted /\ form[s].right = "" /\ form[s].wrong = ""

\* C8: the prompt sent to the model embeds exactly the min(k, 5) most recently
\* saved entries of the user, newest first, k being the number of the user's
\* stored entries: all of them up to 5, the oldest left out from 6 on.
C8_PromptHasFiveNewest ==
    \A s \in Sessions :
        llm_called[s] =>
            LET mine == Reverse(AppendedBy(form[s].current_user))
                n == IF Len(mine) < HeadCount THEN Len(mine) ELSE HeadCount
            IN prompt[s] = [i \in 1..n |-> <<mine[i][1], mine[i][5], mine[i][4]>>]

C8_Witness ==
    \E s \in Sessions :
        /\ llm_called[s]
        /\ Len(AppendedBy(form[s].current_user)) = HeadCount + 1
        /\ Len(prompt[s]) = HeadCount

\* C9: every step keeps the stored rows as they are and in their order (the
\* old sheet is a prefix of the new one); a save_to_sheet that returns True
\* adds exactly one row, the entry, and one that returns False adds none.
C9_RowsOnlyAppended ==
    [][/\ IsPrefix(sheet, sheet')
       /\ Len(sheet') <= Len(sheet) + 1
       /\ \A s \in Sessions :
             Left(s, "save") =>
                 IF success'[s]
                 THEN /\ Len(sheet') = Len(sheet) + 1
                      /\ sheet'[Len(sheet')] =
                            <<sheet'[Len(sheet')][1], sheet'[Len(sheet')][2],
                              form[s].current_user, form[s].right, form[s].wrong,
                              form[s].next_time>>
                 ELSE sheet' = sheet]_vars

C9_Witness ==
    \E s1, s2 \in Sessions :
        /\ s1 # s2
        /\ success[s1] /\ success[s2]
        /\ saved[s1][3] # saved[s2][3]
        /\ \E i, j \in 1..Len(sheet) :
              i < j /\ sheet[i] = saved[s1] /\ sheet[j] = saved[s2]

\* C10: in the submit flow the model is called only after save_to_sheet
\* returned True in the same run, and the history handed to generate_ai_tip
\* then holds the entry just saved.
C10_ModelCalledAfterSaveWithEntry ==
    \A s \in Sessions :
        llm_called[s] =>
            /\ success[s]
            /\ MSG_SAVED \in messages[s]
            /\ \E i \in 1..Len(history_df[s]) : history_df[s][i] = AsRecord(saved[s])

C10_Witness ==
    \E s \in Sessions :
        /\ llm_called[s]
        /\ Len(history_df[s]) < Len(appended)

====
